---- MODULE Spec2Model ----
(***************************************************************************)
(* Model of the RSS_Feeds utilities:                                       *)
(*   - newsdata_client.py : fetch from the news API, merge into a          *)
(*     deduplicated JSON store (load_dump, article_key, main, save_dump)   *)
(*   - rss_openai_digest.py : fetch RSS feeds, dedupe within the run,      *)
(*     optionally summarise, write a snapshot and an archive copy          *)
(* Strings are sequences of one-character strings so that str().strip()    *)
(* and the key formatting are computed, not assumed.                       *)
(***************************************************************************)
EXTENDS Integers, Sequences, FiniteSets, TLC

VARIABLES
    file,        \* the store file on disk (newsdata_client.py --output)
    pc,          \* position of the news-pipeline process in main()
    runs,        \* number of process runs started so far (also the clock)
    args,        \* parsed command-line arguments of the current run
    results,     \* results list of the latest accepted API response
    dump,        \* the in-memory store of the current run
    trace,       \* steps the current run has performed, in order
    hist,        \* the file at the start of this run; the previous run's outcome
    ka, kb,      \* two item records handed to article_key
    kpc,         \* position of the article_key evaluation
    keyA, keyB,  \* the keys article_key returned for ka and kb
    dpc,         \* position of the digest process in main()
    dargs,       \* digest arguments: --skip-openai, --max-items-per-feed (1 or 2)
    feeds,       \* the feeds select_feeds returned
    didx,        \* index of the next feed of the loop
    items,       \* items collected so far
    errors,      \* per-feed error records
    seen,        \* dedupe keys seen in this run
    attempted,   \* feeds the loop has tried, in order, each with its outcome
    encountered, \* every item the fetched feeds yielded, in encounter order
    openai,      \* the outcome of the language-model call, if one was made
    snapshot,    \* the snapshot file (--output)
    archive      \* the dated archive copy

newsVars == <<file, pc, runs, args, results, dump, trace, hist>>
keyVars  == <<ka, kb, kpc, keyA, keyB>>
digestVars == <<dpc, dargs, feeds, didx, items, errors, seen, attempted, encountered,
                openai, snapshot, archive>>

(***************************************************************************)
(* Bounds                                                                  *)
(***************************************************************************)
MaxRuns   == 2   \* process runs of the news pipeline
MaxBatch  == 2   \* length of one API result list
MaxStored == 2   \* length of the article list in the initial store file
MaxFeeds   == 2  \* feeds selected for one digest run
MaxEntries == 2  \* entries one feed document holds

(***************************************************************************)
(* JSON values of item fields: null/absent, a string, or a number given by *)
(* the characters str() renders it with                                    *)
(***************************************************************************)
Null   == [t |-> "null", v |-> <<>>]
Str(s) == [t |-> "str", v |-> s]
Num(s) == [t |-> "num", v |-> s]

\* Python truthiness of a field value: None, "" and 0 are falsy
Truthy(x) ==
    \/ x.t = "str" /\ x.v # <<>>
    \/ x.t = "num" /\ x.v # <<"0">>

\* str(x or y or "")
OrEmpty(x, y) == IF Truthy(x) THEN x.v ELSE IF Truthy(y) THEN y.v ELSE <<>>

IsSpace(c) == c = " "

RECURSIVE LStrip(_)
LStrip(s) == IF s # <<>> /\ IsSpace(Head(s)) THEN LStrip(Tail(s)) ELSE s

RECURSIVE RStrip(_)
RStrip(s) ==
    IF s # <<>> /\ IsSpace(s[Len(s)]) THEN RStrip(SubSeq(s, 1, Len(s) - 1)) ELSE s

\* str.strip()
Strip(s) == RStrip(LStrip(s))

(***************************************************************************)
(* article_key (newsdata_client.py:113-125)                                *)
(***************************************************************************)
IdPrefix       == <<"i", "d", ":">>
LinkPrefix     == <<"l", "i", "n", "k", ":">>
FallbackPrefix == <<"f", "a", "l", "l", "b", "a", "c", "k", ":">>

KeyArticleId(item) == Strip(OrEmpty(item.article_id, Null))
KeyLink(item)      == Strip(OrEmpty(item.link, Null))
KeyTitle(item)     == Strip(OrEmpty(item.title, Null))
KeyPubDate(item)   == Strip(OrEmpty(item.pubDate, item.published_at))
KeySource(item)    == Strip(OrEmpty(item.source_id, item.source_name))

\* a key that takes the fetch stamp into account
article_key_Stamped(item) ==
    (IF KeyArticleId(item) # <<>> THEN IdPrefix \o KeyArticleId(item)
     ELSE IF KeyLink(item) # <<>> THEN LinkPrefix \o KeyLink(item)
     ELSE FallbackPrefix \o KeyTitle(item) \o <<"|">> \o KeyPubDate(item)
              \o <<"|">> \o KeySource(item))
    \o (IF item.fetched_at = 0 THEN <<>> ELSE <<"@">>)

\* a key without the early returns: always the composite, after the identifier
article_key_NoPriority(item) ==
    IdPrefix \o KeyArticleId(item) \o <<"|">> \o KeyTitle(item) \o <<"|">>
        \o KeyPubDate(item) \o <<"|">> \o KeySource(item)

\* the key of a record (a JSON object)
article_key(item) ==
    IF KeyArticleId(item) # <<>> THEN IdPrefix \o KeyArticleId(item)
    ELSE IF KeyLink(item) # <<>> THEN LinkPrefix \o KeyLink(item)
    ELSE FallbackPrefix \o KeyTitle(item) \o <<"|">> \o KeyPubDate(item)
             \o <<"|">> \o KeySource(item)

\* every element is keyed, one that is not a JSON object via its empty fields
Raises_Never(item) == FALSE

\* item.get(...) on an element that is not a JSON object raises AttributeError
Raises(item) == ~item.isdict

(***************************************************************************)
(* Item records                                                            *)
(***************************************************************************)
NoParams == [category |-> "none"]

Item(aid, lnk, ttl, pd, pa, sid, sn) ==
    [isdict |-> TRUE, article_id |-> aid, link |-> lnk, title |-> ttl,
     pubDate |-> pd, published_at |-> pa, source_id |-> sid, source_name |-> sn,
     fetched_at |-> 0, query_params |-> NoParams]

\* an element of a JSON list that is not an object (a string, a number)
NonRecord == [Item(Null, Null, Null, Null, Null, Null, Null) EXCEPT !.isdict = FALSE]

R42  == Item(Str(<<"4", "2">>), Null, Null, Null, Null, Null, Null)
R43  == Item(Str(<<"4", "3">>), Str(<<"u">>), Null, Null, Null, Null, Null)
R42s == Item(Str(<<" ", "4", "2">>), Str(<<"u">>), Str(<<"t">>), Null, Null, Null, Null)
RLnk == Item(Str(<<>>), Str(<<"u">>), Str(<<"t">>), Null, Null, Null, Null)
RFal == Item(Null, Str(<<" ">>), Str(<<"t">>), Null, Str(<<"d">>), Null, Str(<<"s">>))

ResultPool == {R42, R43, RLnk}
StoredPool == {R42, R42s}

SeqsUpTo(S, n) == UNION {[1..k -> S] : k \in 0..n}

\* result lists of records, and two lists holding an element that is no record
ResultLists == SeqsUpTo(ResultPool, MaxBatch) \cup {<<NonRecord>>, <<R43, NonRecord>>}
StoredLists == SeqsUpTo(StoredPool, MaxStored)

Categories == {"top"}

(***************************************************************************)
(* The store file and load_dump (newsdata_client.py:57-103)                *)
(* shape: what the path holds.  For shape "object" the four fields are the *)
(* members of the JSON object; for shape "list" articles.v is the list.    *)
(* A list-valued member is [k |-> "list"], a missing one "absent", any     *)
(* other JSON value (a string, a number, an object) "other".               *)
(***************************************************************************)
Absent     == [k |-> "absent", v |-> <<>>]
Other      == [k |-> "other", v |-> <<NonRecord>>]
ListOf(xs) == [k |-> "list", v |-> xs]

SchemaVersion == "1.0"

FileOf(shape, sv, upd, arts, reqs) ==
    [shape |-> shape, schema_version |-> sv, updated_at |-> upd,
     articles |-> arts, requests |-> reqs]

PlainFile(shape) == FileOf(shape, "absent", 0, Absent, Absent)

\* the store a run holds in memory; updated_at 0 is None
Store(sv, upd, arts, reqs) ==
    [schema_version |-> sv, updated_at |-> upd, articles |-> arts, requests |-> reqs]

EmptyStore == Store(SchemaVersion, 0, <<>>, <<>>)

\* data.setdefault(name, []) followed by the isinstance(..., list) coercion
ListField(jv) == IF jv.k = "list" THEN jv.v ELSE <<>>

\* malformed JSON taken for an empty file
LoadFatal_MalformedAsEmpty(f) == f.shape \in {"unreadable", "scalar"}

\* OSError and JSONDecodeError are swallowed
LoadFatal_OnlyNonObject(f) == f.shape = "scalar"

\* sys.exit(1) of load_dump: unreadable or malformed, or neither object nor list
LoadFatal(f) == f.shape \in {"unreadable", "malformed", "scalar"}

\* the legacy list is not carried over
load_dump_LegacyDropped(f) ==
    IF f.shape \in {"missing", "blank", "list"} THEN EmptyStore
    ELSE Store(IF f.schema_version = "absent" THEN SchemaVersion ELSE f.schema_version,
               f.updated_at,
               ListField(f.articles),
               ListField(f.requests))

load_dump(f) ==
    IF f.shape \in {"missing", "blank"} THEN EmptyStore
    ELSE IF f.shape = "list" THEN Store(SchemaVersion, 0, f.articles.v, <<>>)
    ELSE Store(IF f.schema_version = "absent" THEN SchemaVersion ELSE f.schema_version,
               f.updated_at,
               ListField(f.articles),
               ListField(f.requests))

\* save_dump (newsdata_client.py:106-110): the whole store as one JSON object
save_dump(d) ==
    FileOf("object", d.schema_version, d.updated_at, ListOf(d.articles), ListOf(d.requests))

InitFiles ==
    {PlainFile(sh) : sh \in {"missing", "blank", "malformed", "unreadable", "scalar"}}
    \cup {FileOf("list", "absent", 0, ListOf(xs), Absent) : xs \in StoredLists}
    \cup {FileOf("object", SchemaVersion, 0, ListOf(xs), ListOf(<<>>)) :
            xs \in {<<>>, <<R42>>, <<RFal>>, <<R42, RFal>>, <<NonRecord>>, <<R42, NonRecord>>}}
    \cup {FileOf("object", sv, 0, a, r) :
            sv \in {"absent", "0.9"},
            a \in {Absent, Other, ListOf(<<R42>>)},
            r \in {Absent, Other}}

(***************************************************************************)
(* The merge of main() (newsdata_client.py:180-225)                        *)
(***************************************************************************)
RECURSIVE KeysOf(_)
\* existing_keys of lines 180-182, for a list of records
KeysOf(arts) ==
    IF arts = <<>> THEN {} ELSE {article_key(Head(arts))} \cup KeysOf(Tail(arts))

AnyRaises(xs) == \E i \in 1..Len(xs) : Raises(xs[i])

\* lines 193-201
Stamp(item, fetched_at, a) ==
    [item EXCEPT !.fetched_at = fetched_at, !.query_params = [category |-> a.category]]

\* the membership test never succeeds
AlreadyKnown_Never(key, keys) == FALSE

\* line 190
AlreadyKnown(key, keys) == key \in keys

\* lines 188-204: st is the loop state; the loop stops where article_key raises
RECURSIVE MergeLoop(_, _, _, _)
MergeLoop(rs, st, fetched_at, a) ==
    IF rs = <<>> THEN st
    ELSE IF Raises(Head(rs)) THEN [st EXCEPT !.raised = TRUE]
    ELSE LET item == Head(rs)
             key  == article_key(item)
         IN  IF AlreadyKnown(key, st.keys)
             THEN MergeLoop(Tail(rs), [st EXCEPT !.skipped = @ + 1], fetched_at, a)
             ELSE MergeLoop(Tail(rs),
                            [st EXCEPT !.articles = Append(@, Stamp(item, fetched_at, a)),
                                       !.keys = @ \cup {key},
                                       !.added = @ + 1],
                            fetched_at, a)

\* the audit record counts every returned record as added
AuditRecord_CountsAll(fetched_at, a, rs, added, skipped) ==
    [fetched_at |-> fetched_at, params |-> [category |-> a.category],
     status |-> "success", results_count |-> Len(rs),
     added |-> Len(rs), skipped |-> skipped]

\* lines 207-225
AuditRecord(fetched_at, a, rs, added, skipped) ==
    [fetched_at |-> fetched_at, params |-> [category |-> a.category],
     status |-> "success", results_count |-> Len(rs),
     added |-> added, skipped |-> skipped]

\* lines 180-225 on a store whose elements are all records
MergeResult(d, rs, fetched_at, a) ==
    LET st == MergeLoop(rs,
                        [articles |-> d.articles, keys |-> KeysOf(d.articles),
                         added |-> 0, skipped |-> 0, raised |-> FALSE],
                        fetched_at, a)
    IN  [raised |-> st.raised,
         store  |-> Store(d.schema_version, fetched_at, st.articles,
                          Append(d.requests,
                                 AuditRecord(fetched_at, a, rs, st.added, st.skipped)))]

(***************************************************************************)
(* The news-pipeline process: main() (newsdata_client.py:147-229)          *)
(* pc: "none" no process yet, "main" after parse_args, "fetched" after the *)
(* response was accepted, "loaded" after load_dump, "merged" after the     *)
(* audit append, "exit0"/"exit1" the process ended with that exit code,    *)
(* "killed" the process was stopped from outside while save_dump wrote.    *)
(***************************************************************************)
NoArgs == [category |-> "none"]

InitNews ==
    /\ file \in InitFiles
    /\ pc = "none"
    /\ runs = 0
    /\ args = NoArgs
    /\ results = <<>>
    /\ dump = EmptyStore
    /\ trace = <<>>
    /\ hist = [prev_ok |-> FALSE, prev_killed |-> FALSE, same |-> FALSE, start_file |-> file]

\* a new process is started (one writer at a time): line 148; results keeps
\* the list of the run before when that run completed, for hist.same
Start ==
    /\ pc \in {"none", "exit0", "exit1", "killed"}
    /\ runs < MaxRuns
    /\ runs' = runs + 1
    /\ \E c \in Categories : args' = [category |-> c]
    /\ pc' = "main"
    /\ dump' = EmptyStore
    /\ trace' = <<>>
    /\ hist' = [prev_ok |-> (pc = "exit0"), prev_killed |-> (pc = "killed"),
                same |-> FALSE, start_file |-> file]
    /\ results' = IF pc = "exit0" THEN results ELSE <<>>
    /\ UNCHANGED file

\* lines 149-152: no API key
NoApiKey ==
    /\ pc = "main"
    /\ pc' = "exit1"
    /\ UNCHANGED <<file, runs, args, results, dump, trace, hist>>

\* lines 166-175: the request raises, or the status is not "success"
FetchFails ==
    /\ pc = "main"
    /\ trace' = Append(trace, "fetch")
    /\ pc' = "exit1"
    /\ UNCHANGED <<file, runs, args, results, dump, hist>>

\* lines 166-177: the request succeeds with a results list
FetchOk ==
    /\ pc = "main"
    /\ \E rs \in ResultLists :
          /\ results' = rs
          /\ hist' = [hist EXCEPT !.same = (hist.prev_ok /\ rs = results)]
    /\ trace' = Append(trace, "fetch")
    /\ pc' = "fetched"
    /\ UNCHANGED <<file, runs, args, dump>>

\* line 178, load_dump exits
LoadDumpFatal ==
    /\ pc = "fetched"
    /\ LoadFatal(file)
    /\ trace' = Append(trace, "load")
    /\ pc' = "exit1"
    /\ UNCHANGED <<file, runs, args, results, dump, hist>>

\* the store is loaded before the request is issued
LoadDumpOk_BeforeFetch ==
    /\ pc = "main"
    /\ trace = <<>>
    /\ ~LoadFatal(file)
    /\ dump' = load_dump(file)
    /\ trace' = Append(trace, "load")
    /\ UNCHANGED <<file, pc, runs, args, results, hist>>

\* line 178, load_dump returns a store
LoadDumpOk ==
    /\ pc = "fetched"
    /\ ~LoadFatal(file)
    /\ dump' = load_dump(file)
    /\ trace' = Append(trace, "load")
    /\ pc' = "loaded"
    /\ UNCHANGED <<file, runs, args, results, hist>>

\* lines 180-225 where article_key raises: uncaught, the process dies
MergeRaises ==
    /\ pc = "loaded"
    /\ \/ AnyRaises(dump.articles)
       \/ MergeResult(dump, results, runs, args).raised
    /\ trace' = Append(trace, "merge")
    /\ pc' = "exit1"
    /\ UNCHANGED <<file, runs, args, results, dump, hist>>

\* lines 180-225; fetched_at = utc_now() is the run's clock reading
Merge ==
    /\ pc = "loaded"
    /\ ~AnyRaises(dump.articles)
    /\ LET r == MergeResult(dump, results, runs, args)
       IN  /\ ~r.raised
           /\ dump' = r.store
    /\ trace' = Append(trace, "merge")
    /\ pc' = "merged"
    /\ UNCHANGED <<file, runs, args, results, hist>>

\* lines 227-229
SaveDump ==
    /\ pc = "merged"
    /\ file' = save_dump(dump)
    /\ trace' = Append(trace, "write")
    /\ pc' = "exit0"
    /\ UNCHANGED <<runs, args, results, dump, hist>>

\* what a process stopped inside save_dump leaves on disk (lines 108-110):
\* open(path, "w") has truncated the file, so nothing flushed yet is a file
\* of zero bytes; the document starts with "{" and ends with "}" and a
\* newline, so a proper prefix that is not empty is either an unclosed JSON
\* object or the whole object short of its final newline, and that last
\* file reads as the complete one (load_dump strips the content)
CrashFiles(d) == {PlainFile("blank"), PlainFile("malformed"), save_dump(d)}

\* lines 227, 108-110: the process is stopped between the open and the last
\* byte; what it held in memory is gone with it
SaveDumpCrash ==
    /\ pc = "merged"
    /\ file' \in CrashFiles(dump)
    /\ trace' = Append(trace, "write")
    /\ pc' = "killed"
    /\ results' = <<>>
    /\ dump' = EmptyStore
    /\ UNCHANGED <<runs, args, hist>>

(***************************************************************************)
(* article_key applied to two records                                      *)
(***************************************************************************)
IdValues    == {Null, Str(<<" ">>), Str(<<"7">>), Num(<<"0">>)}
LinkValues  == {Null, Str(<<" ">>), Str(<<"u">>)}
FieldValues(c) == {Null, Str(<<c>>)}

KeyPool ==
    {Item(aid, lnk, ttl, pd, pa, sid, sn) :
        aid \in IdValues, lnk \in LinkValues, ttl \in FieldValues("t"),
        pd \in FieldValues("d"), pa \in FieldValues("e"),
        sid \in FieldValues("s"), sn \in FieldValues("n")}

NoKey == <<>>

InitKey ==
    /\ ka \in KeyPool
    /\ kb \in KeyPool
    /\ kpc = "call"
    /\ keyA = NoKey
    /\ keyB = NoKey

ComputeKeys ==
    /\ kpc = "call"
    /\ keyA' = article_key(ka)
    /\ keyB' = article_key(kb)
    /\ kpc' = "returned"
    /\ UNCHANGED <<ka, kb>>

KeyIdle ==
    /\ ka = R42 /\ kb = R42 /\ kpc = "idle" /\ keyA = NoKey /\ keyB = NoKey

NewsIdle ==
    /\ file = PlainFile("missing") /\ pc = "off" /\ runs = 0 /\ args = NoArgs
    /\ results = <<>> /\ dump = EmptyStore /\ trace = <<>>
    /\ hist = [prev_ok |-> FALSE, prev_killed |-> FALSE, same |-> FALSE, start_file |-> file]

(***************************************************************************)
(* rss_openai_digest.py: text helpers                                      *)
(***************************************************************************)
\* " ".join(value.split()) : whitespace runs become one space, ends are trimmed
RECURSIVE Squeeze(_)
Squeeze(s) ==
    IF s = <<>> THEN <<>>
    ELSE IF IsSpace(Head(s))
         THEN (IF LStrip(s) = <<>> THEN <<>> ELSE <<" ">> \o Squeeze(LStrip(s)))
         ELSE <<Head(s)>> \o Squeeze(Tail(s))

Max(a, b) == IF a >= b THEN a ELSE b

\* compact_text (lines 46-52)
compact_text(value, limit) ==
    IF value = <<>> THEN <<>>
    ELSE LET compact == Squeeze(LStrip(value))
         IN  IF Len(compact) <= limit THEN compact
             ELSE SubSeq(compact, 1, Max(limit - 3, 0)) \o <<".", ".", ".">>

TitleLimit == 200

\* hashlib.sha1(...).hexdigest()[:12], taken as collision-free: "#" marks a digest
Sha1Hex(s) == <<"#">> \o s

\* item_id (lines 125-128)
item_id(source_id, link, title) ==
    LET base == Strip(IF link # <<>> THEN link ELSE title)
    IN  Sha1Hex(source_id \o <<":">> \o base)

(***************************************************************************)
(* Feeds and entries                                                       *)
(***************************************************************************)
\* two feeds per source: feeds 1 and 2 belong to source 1, feed 3 to source 2
SourceOf(i) == IF (i + 1) \div 2 = 1 THEN <<"s", "1">> ELSE <<"s", "2">>

Feed(i) == [source_id |-> SourceOf(i), feed_url |-> i]

Entry(ttl, lnk) == [title |-> ttl, link |-> lnk]

E1 == Entry(Str(<<"a", " ">>), Str(<<"u">>))
E2 == Entry(Str(<<"u">>), Str(<<" ">>))
E3 == Entry(Null, Null)

EntryPool == {E1, E2, E3}
EntryLists == SeqsUpTo(EntryPool, MaxEntries)

Now == "t1"

\* lines 145-166, one entry
FeedItem(feed, entry) ==
    LET title == compact_text(Strip(OrEmpty(entry.title, Null)), TitleLimit)
        link  == Strip(OrEmpty(entry.link, Null))
    IN  [id |-> item_id(feed.source_id, link, title), title |-> title, link |-> link,
         source_id |-> feed.source_id, feed_url |-> feed.feed_url,
         fetched_at |-> "none", ai |-> FALSE]

\* parsed.entries[:max_items]
Take(xs, n) == SubSeq(xs, 1, IF Len(xs) <= n THEN Len(xs) ELSE n)

\* fetch_feed_items (lines 131-167) for a feed that was fetched and parsed
fetch_feed_items(feed, entries, max_items) ==
    [i \in 1..Len(Take(entries, max_items)) |-> FeedItem(feed, entries[i])]

\* line 299
dedupe_key(item) ==
    IF item.link # <<>> THEN item.link
    ELSE IF item.title # <<>> THEN item.title
    ELSE item.id

\* the seen-set is never consulted
SeenBefore_Never(key, keys) == FALSE

\* line 300
SeenBefore(key, keys) == key \in keys

\* lines 298-304; st holds items and seen
RECURSIVE DedupeLoop(_, _)
DedupeLoop(feed_items, st) ==
    IF feed_items = <<>> THEN st
    ELSE LET item == Head(feed_items)
             key  == dedupe_key(item)
         IN  IF SeenBefore(key, st.seen) THEN DedupeLoop(Tail(feed_items), st)
             ELSE DedupeLoop(Tail(feed_items),
                             [items |-> Append(st.items, [item EXCEPT !.fetched_at = Now]),
                              seen  |-> st.seen \cup {key}])

(***************************************************************************)
(* The language-model call (lines 196-247)                                 *)
(* A completion is text over "{", "}", " ", "x" (prose) and "m" (a         *)
(* well-formed member list "items": [...]).                                *)
(***************************************************************************)
Positions(t, c) == {i \in 1..Len(t) : t[i] = c}

MinOf(S) == CHOOSE x \in S : \A y \in S : x <= y
MaxOf(S) == CHOOSE x \in S : \A y \in S : x >= y

\* extract_json (lines 196-204)
extract_json(text) ==
    LET t == Strip(text)
    IN  IF t # <<>> /\ t[1] = "{" /\ t[Len(t)] = "}" THEN t
        ELSE IF Positions(t, "{") # {} /\ Positions(t, "}") # {}
                  /\ MaxOf(Positions(t, "}")) > MinOf(Positions(t, "{"))
             THEN SubSeq(t, MinOf(Positions(t, "{")), MaxOf(Positions(t, "}")))
             ELSE <<>>

NotSpace(c) == c # " "

\* json.loads accepts the text: one object, empty or holding the member list
JsonLoadsOk(raw) ==
    /\ Len(raw) >= 2
    /\ raw[1] = "{"
    /\ raw[Len(raw)] = "}"
    /\ SelectSeq(SubSeq(raw, 2, Len(raw) - 1), NotSpace) \in {<<>>, <<"m">>}

HasItemsMember(raw) == SelectSeq(raw, NotSpace) = <<"{", "m", "}">>

Completions ==
    { <<>>, <<"{", "}">>, <<" ", "{", "m", "}", " ">>, <<"x", "{", "m", "}", "x">>,
      <<"{", "x", "}">>, <<"}", "{">>, <<"{", "m", "}", "{", "m", "}">> }

OpenAIOutcomes ==
    {[attempted |-> TRUE, call |-> c, text |-> <<>>] : c \in {"http_error", "error"}}
    \cup {[attempted |-> TRUE, call |-> "ok", text |-> t] : t \in Completions}

NoCall == [attempted |-> FALSE, call |-> "none", text |-> <<>>]

\* a completion that does not parse is taken for an empty result
CallRaises_IgnoresParse(o) ==
    \/ o.call # "ok"
    \/ extract_json(o.text) = <<>>

\* call_openai raises RuntimeError (lines 224-245)
CallRaises(o) ==
    \/ o.call # "ok"
    \/ extract_json(o.text) = <<>>
    \/ ~JsonLoadsOk(extract_json(o.text))

\* lines 329-339: items whose id the response covers get the AI fields
Augment(its, cover) == [i \in 1..Len(its) |-> [its[i] EXCEPT !.ai = (its[i].id \in cover)]]

Ids(its) == {its[i].id : i \in 1..Len(its)}

\* the ids a response lists: the first item's only, or all; none without the member
Covers(its, o) ==
    IF HasItemsMember(extract_json(o.text))
    THEN {{its[1].id}, Ids(its)}
    ELSE {{}}

(***************************************************************************)
(* The digest process: main() (lines 266-364)                              *)
(***************************************************************************)
Output(summarised) ==
    [generated_at |-> Now, openai |-> summarised, items |-> items, errors |-> errors]

NoFile == [exists |-> FALSE,
           doc |-> [generated_at |-> "none", openai |-> FALSE, items |-> <<>>, errors |-> <<>>]]

\* a snapshot an earlier run wrote; it holds an item with link "u"
OldSnapshot ==
    [exists |-> TRUE,
     doc |-> [generated_at |-> "t0", openai |-> FALSE,
              items |-> <<[FeedItem(Feed(1), E1) EXCEPT !.fetched_at = "t0"]>>,
              errors |-> <<>>]]

InitDigest ==
    /\ dpc = "start"
    /\ dargs \in [skip_openai : BOOLEAN, max_items : {1, 2}]
    /\ \E n \in 0..MaxFeeds : feeds = [i \in 1..n |-> Feed(i)]
    /\ didx = 1
    /\ items = <<>>
    /\ errors = <<>>
    /\ seen = {}
    /\ attempted = <<>>
    /\ encountered = <<>>
    /\ openai = NoCall
    /\ snapshot = OldSnapshot
    /\ archive = NoFile

\* lines 273-275
NoFeedsSelected ==
    /\ dpc = "start"
    /\ feeds = <<>>
    /\ dpc' = "fail_nofeeds"
    /\ UNCHANGED <<dargs, feeds, didx, items, errors, seen, attempted, encountered,
                   openai, snapshot, archive>>

\* lines 277-281
BeginLoop ==
    /\ dpc = "start"
    /\ feeds # <<>>
    /\ dpc' = "loop"
    /\ didx' = 1
    /\ items' = <<>>
    /\ errors' = <<>>
    /\ seen' = {}
    /\ UNCHANGED <<dargs, feeds, attempted, encountered, openai, snapshot, archive>>

ErrorRecord(feed, what) ==
    [feed_url |-> feed.feed_url, source_id |-> feed.source_id, error |-> what]

\* a failing feed ends the run, as a failing request ends the news pipeline
FeedFails_Aborts ==
    /\ dpc = "loop"
    /\ didx <= Len(feeds)
    /\ dpc' = "fail_feed"
    /\ UNCHANGED <<dargs, feeds, didx, items, errors, seen, attempted, encountered,
                   openai, snapshot, archive>>

\* lines 283-296: urlopen raises (137), or the feed is bozo with no entries (141-143)
FeedFails ==
    /\ dpc = "loop"
    /\ didx <= Len(feeds)
    /\ \E what \in {"http", "parse"} :
          /\ errors' = Append(errors, ErrorRecord(feeds[didx], what))
          /\ attempted' = Append(attempted, [feed |-> didx, outcome |-> what])
    /\ didx' = didx + 1
    /\ UNCHANGED <<dpc, dargs, feeds, items, seen, encountered, openai, snapshot, archive>>

\* lines 283-304: the feed yields entries (possibly none, possibly with a parse fault)
FeedOk ==
    /\ dpc = "loop"
    /\ didx <= Len(feeds)
    /\ \E entries \in EntryLists :
          LET feed_items == fetch_feed_items(feeds[didx], entries, dargs.max_items)
              st == DedupeLoop(feed_items, [items |-> items, seen |-> seen])
          IN  /\ items' = st.items
              /\ seen' = st.seen
              /\ encountered' = encountered \o feed_items
    /\ attempted' = Append(attempted, [feed |-> didx, outcome |-> "ok"])
    /\ didx' = didx + 1
    /\ UNCHANGED <<dpc, dargs, feeds, errors, openai, snapshot, archive>>

\* lines 306-319: the loop is over, the output document is built
EndLoop ==
    /\ dpc = "loop"
    /\ didx > Len(feeds)
    /\ dpc' = "collected"
    /\ UNCHANGED <<dargs, feeds, didx, items, errors, seen, attempted, encountered,
                   openai, snapshot, archive>>

Summarising == items # <<>> /\ ~dargs.skip_openai

\* line 321 false: no call
SkipSummarise ==
    /\ dpc = "collected"
    /\ ~Summarising
    /\ dpc' = "summarised"
    /\ UNCHANGED <<dargs, feeds, didx, items, errors, seen, attempted, encountered,
                   openai, snapshot, archive>>

\* lines 322-325
MissingOpenAIKey ==
    /\ dpc = "collected"
    /\ Summarising
    /\ dpc' = "fail_nokey"
    /\ UNCHANGED <<dargs, feeds, didx, items, errors, seen, attempted, encountered,
                   openai, snapshot, archive>>

\* line 328: call_openai raises, nothing catches it
SummariseFails ==
    /\ dpc = "collected"
    /\ Summarising
    /\ \E o \in OpenAIOutcomes : CallRaises(o) /\ openai' = o
    /\ dpc' = "fail_openai"
    /\ UNCHANGED <<dargs, feeds, didx, items, errors, seen, attempted, encountered,
                   snapshot, archive>>

\* lines 328-345
SummariseOk ==
    /\ dpc = "collected"
    /\ Summarising
    /\ \E o \in OpenAIOutcomes :
          /\ ~CallRaises(o)
          /\ openai' = o
          /\ \E cover \in Covers(items, o) : items' = Augment(items, cover)
    /\ dpc' = "summarised"
    /\ UNCHANGED <<dargs, feeds, didx, errors, seen, attempted, encountered,
                   snapshot, archive>>

\* lines 347-350
WriteSnapshot ==
    /\ dpc = "summarised"
    /\ snapshot' = [exists |-> TRUE, doc |-> Output(openai.attempted)]
    /\ dpc' = "written"
    /\ UNCHANGED <<dargs, feeds, didx, items, errors, seen, attempted, encountered,
                   openai, archive>>

\* lines 352-364: neither --no-archive nor an empty --archive-dir was given
WriteArchive ==
    /\ dpc = "written"
    /\ archive' = [exists |-> TRUE, doc |-> Output(openai.attempted)]
    /\ dpc' = "exit0"
    /\ UNCHANGED <<dargs, feeds, didx, items, errors, seen, attempted, encountered,
                   openai, snapshot>>

\* line 352 false: --no-archive, or an empty --archive-dir
SkipArchive ==
    /\ dpc = "written"
    /\ dpc' = "exit0"
    /\ UNCHANGED <<dargs, feeds, didx, items, errors, seen, attempted, encountered,
                   openai, snapshot, archive>>

DigestIdle ==
    /\ dpc = "off"
    /\ dargs = [skip_openai |-> FALSE, max_items |-> 1]
    /\ feeds = <<>>
    /\ didx = 1
    /\ items = <<>>
    /\ errors = <<>>
    /\ seen = {}
    /\ attempted = <<>>
    /\ encountered = <<>>
    /\ openai = NoCall
    /\ snapshot = NoFile
    /\ archive = NoFile

vars == <<file, pc, runs, args, results, dump, trace, hist, ka, kb, kpc, keyA, keyB,
          dpc, dargs, feeds, didx, items, errors, seen, attempted, encountered,
          openai, snapshot, archive>>

Init == InitNews /\ KeyIdle /\ DigestIdle

Next ==
    \/ (Start /\ UNCHANGED <<keyVars, digestVars>>)
    \/ (NoApiKey /\ UNCHANGED <<keyVars, digestVars>>)
    \/ (FetchFails /\ UNCHANGED <<keyVars, digestVars>>)
    \/ (FetchOk /\ UNCHANGED <<keyVars, digestVars>>)
    \/ (LoadDumpFatal /\ UNCHANGED <<keyVars, digestVars>>)
    \/ (LoadDumpOk /\ UNCHANGED <<keyVars, digestVars>>)
    \/ (MergeRaises /\ UNCHANGED <<keyVars, digestVars>>)
    \/ (Merge /\ UNCHANGED <<keyVars, digestVars>>)
    \/ (SaveDump /\ UNCHANGED <<keyVars, digestVars>>)

Spec == Init /\ [][Next]_vars

\* the news pipeline whose process may be stopped while save_dump writes
\* (newsdata_client.py:106-110), started on a missing file or on a store
CrashInitFiles ==
    {PlainFile("missing")}
    \cup {FileOf("object", SchemaVersion, 0, ListOf(xs), ListOf(<<>>)) :
            xs \in {<<R42>>, <<R42, RFal>>}}

InitCrash == InitNews /\ file \in CrashInitFiles /\ KeyIdle /\ DigestIdle

NextCrash ==
    \/ (Start /\ UNCHANGED <<keyVars, digestVars>>)
    \/ (NoApiKey /\ UNCHANGED <<keyVars, digestVars>>)
    \/ (FetchFails /\ UNCHANGED <<keyVars, digestVars>>)
    \/ (FetchOk /\ UNCHANGED <<keyVars, digestVars>>)
    \/ (LoadDumpFatal /\ UNCHANGED <<keyVars, digestVars>>)
    \/ (LoadDumpOk /\ UNCHANGED <<keyVars, digestVars>>)
    \/ (MergeRaises /\ UNCHANGED <<keyVars, digestVars>>)
    \/ (Merge /\ UNCHANGED <<keyVars, digestVars>>)
    \/ (SaveDump /\ UNCHANGED <<keyVars, digestVars>>)
    \/ (SaveDumpCrash /\ UNCHANGED <<keyVars, digestVars>>)

SpecCrash == InitCrash /\ [][NextCrash]_vars

NextKey == ComputeKeys /\ UNCHANGED <<newsVars, digestVars>>

InitKeySpec == NewsIdle /\ InitKey /\ DigestIdle

SpecKey == InitKeySpec /\ [][NextKey]_vars

NextDigest ==
    \/ (NoFeedsSelected /\ UNCHANGED <<newsVars, keyVars>>)
    \/ (BeginLoop /\ UNCHANGED <<newsVars, keyVars>>)
    \/ (FeedFails /\ UNCHANGED <<newsVars, keyVars>>)
    \/ (FeedOk /\ UNCHANGED <<newsVars, keyVars>>)
    \/ (EndLoop /\ UNCHANGED <<newsVars, keyVars>>)
    \/ (SkipSummarise /\ UNCHANGED <<newsVars, keyVars>>)
    \/ (MissingOpenAIKey /\ UNCHANGED <<newsVars, keyVars>>)
    \/ (SummariseFails /\ UNCHANGED <<newsVars, keyVars>>)
    \/ (SummariseOk /\ UNCHANGED <<newsVars, keyVars>>)
    \/ (WriteSnapshot /\ UNCHANGED <<newsVars, keyVars>>)
    \/ (WriteArchive /\ UNCHANGED <<newsVars, keyVars>>)
    \/ (SkipArchive /\ UNCHANGED <<newsVars, keyVars>>)

InitDigestSpec == NewsIdle /\ KeyIdle /\ InitDigest

SpecDigest == InitDigestSpec /\ [][NextDigest]_vars

(***************************************************************************)
(* Helpers of the properties                                               *)
(***************************************************************************)
IsPrefix(p, q) == Len(p) <= Len(q) /\ SubSeq(q, 1, Len(p)) = p

Last(q) == q[Len(q)]

\* the k-th smallest element of a finite set of numbers
NthSmallest(S, k) == CHOOSE x \in S : Cardinality({y \in S : y < x}) = k - 1

\* the keys of a list's elements, position by position
RECURSIVE KeySeq(_)
KeySeq(xs) ==
    IF xs = <<>> THEN <<>> ELSE <<article_key(Head(xs))>> \o KeySeq(Tail(xs))

\* pairs of positions holding records with the same identity key
DupPairs(xs) ==
    LET ks == KeySeq(xs)
    IN  {<<i, j>> \in (1..Len(xs)) \X (1..Len(xs)) :
            i < j /\ xs[i].isdict /\ xs[j].isdict /\ ks[i] = ks[j]}

NoDupKeys(xs) == DupPairs(xs) = {}

KeySet(xs) == {article_key(xs[i]) : i \in {j \in 1..Len(xs) : xs[j].isdict}}

\* the item and audit sequences a store file holds, if it holds any
FileItems(f) ==
    IF f.shape \in {"list", "object"} /\ f.articles.k = "list" THEN f.articles.v ELSE <<>>

FileRequests(f) ==
    IF f.shape = "object" /\ f.requests.k = "list" THEN f.requests.v ELSE <<>>

\* the run holds a store: it has loaded one and has not died
HoldsStore == pc \in {"loaded", "merged", "exit0"}

\* the run has merged: its store carries this run's audit record
HasMerged == pc \in {"merged", "exit0"}

LastAudit == Last(dump.requests)

(***************************************************************************)
(* C1 (as stated): every store the pipeline holds or writes back has no    *)
(* two records with the same identity key.                                 *)
(***************************************************************************)
C1_NoDuplicateKeysEver == HoldsStore => NoDupKeys(dump.articles)

(***************************************************************************)
(* C1 (amended): load_dump does not deduplicate, merging never adds a      *)
(* duplicate.  A fresh store has no duplicate keys, and after a merge the  *)
(* only pairs of records with equal keys are the pairs the loaded file     *)
(* already had; a file without duplicates stays without duplicates.        *)
(***************************************************************************)
C1_MergeAddsNoDuplicate ==
    /\ (HoldsStore /\ hist.start_file.shape \in {"missing", "blank"})
          => NoDupKeys(dump.articles)
    /\ HasMerged => DupPairs(dump.articles) = DupPairs(FileItems(hist.start_file))
    /\ pc = "exit0" =>
          /\ FileItems(file) = dump.articles
          /\ NoDupKeys(FileItems(hist.start_file)) => NoDupKeys(dump.articles)

C1_Witness ==
    /\ pc = "exit0"
    /\ runs = 2
    /\ FileItems(hist.start_file) # <<>>
    /\ LastAudit.added >= 1
    /\ LastAudit.skipped >= 1
    /\ NoDupKeys(FileItems(file))

(***************************************************************************)
(* C2: merging is idempotent.  When a run follows a completed run and      *)
(* fetches the same result list, the key set of its store equals the key   *)
(* set of the file the first run wrote, and its audit record has added = 0 *)
(* and skipped = the length of the result list.                            *)
(***************************************************************************)
C2_MergeIdempotent ==
    (HasMerged /\ hist.same) =>
        /\ KeySet(dump.articles) = KeySet(FileItems(hist.start_file))
        /\ LastAudit.added = 0
        /\ LastAudit.skipped = Len(results)

C2_Witness ==
    /\ pc = "exit0"
    /\ hist.same
    /\ Len(results) = 2
    /\ \E i \in 1..Len(dump.articles) : dump.articles[i].fetched_at = 1
    /\ LastAudit.fetched_at = 2

(***************************************************************************)
(* C4: one successful merge run.  Incoming records are processed in the    *)
(* fetcher's order; a record is skipped exactly when its key is in the     *)
(* loaded store or occurred earlier in the batch, otherwise it is stamped  *)
(* and appended; exactly one audit record is appended, with added and      *)
(* skipped the numbers of appended and dropped records; updated_at is the  *)
(* run's fetch timestamp, also when nothing was added.                     *)
(***************************************************************************)
\* positions of the batch whose record is new: not in the store, not earlier in the batch
NewPositions(old, rs) ==
    LET oldKeys == KeySet(old)
        ks == KeySeq(rs)
    IN  {i \in 1..Len(rs) :
            /\ ks[i] \notin oldKeys
            /\ \A j \in 1..(i - 1) : ks[j] # ks[i]}

\* the record as the run stores it: the fetched fields, fetched_at and query_params
Stamped(item) ==
    [item EXCEPT !.fetched_at = runs, !.query_params = [category |-> args.category]]

C4_MergeRun ==
    HasMerged =>
        LET old == FileItems(hist.start_file)
            new == NewPositions(old, results)
            n   == Cardinality(new)
        IN  /\ Len(dump.articles) = Len(old) + n
            /\ IsPrefix(old, dump.articles)
            /\ \A k \in 1..n :
                  dump.articles[Len(old) + k] = Stamped(results[NthSmallest(new, k)])
            /\ Len(dump.requests) = Len(FileRequests(hist.start_file)) + 1
            /\ LastAudit.added = n
            /\ LastAudit.skipped = Len(results) - n
            /\ LastAudit.results_count = Len(results)
            /\ LastAudit.added + LastAudit.skipped = LastAudit.results_count
            /\ dump.updated_at = runs
            /\ LastAudit.fetched_at = runs

\* the end-to-end scenario: a store holding id:42 merged with [id 42, id 43]
C4_Witness ==
    /\ pc = "merged"
    /\ FileItems(hist.start_file) = <<R42>>
    /\ results = <<R42, R43>>
    /\ dump.articles = <<R42, Stamped(R43)>>
    /\ LastAudit.added = 1
    /\ LastAudit.skipped = 1

(***************************************************************************)
(* C5: load_dump's outcome is decided by the file's shape.  Missing or     *)
(* blank: a fresh empty store.  A list of N elements: a store with that    *)
(* list as articles and no requests.  An object: that object with missing  *)
(* fields defaulted and non-list articles/requests replaced by empty       *)
(* lists.  Malformed, unreadable or scalar: the run exits non-zero and the *)
(* file is left as it was.  Every loaded store has two sequences.          *)
(***************************************************************************)
LoadFailed == pc = "exit1" /\ trace # <<>> /\ Last(trace) = "load"

IsSequence(x) == DOMAIN x = 1..Len(x)

C5_LoadDumpOutcome ==
    LET f == hist.start_file IN
    /\ pc = "loaded" =>
        /\ f.shape \in {"missing", "blank", "list", "object"}
        /\ f.shape \in {"missing", "blank"} =>
              dump = [schema_version |-> "1.0", updated_at |-> 0,
                      articles |-> <<>>, requests |-> <<>>]
        /\ f.shape = "list" =>
              /\ dump.articles = f.articles.v
              /\ Len(dump.articles) = Len(f.articles.v)
              /\ dump.requests = <<>>
              /\ dump.schema_version = "1.0"
              /\ dump.updated_at = 0
        /\ f.shape = "object" =>
              /\ dump.schema_version =
                    (IF f.schema_version = "absent" THEN "1.0" ELSE f.schema_version)
              /\ dump.updated_at = f.updated_at
              /\ dump.articles = (IF f.articles.k = "list" THEN f.articles.v ELSE <<>>)
              /\ dump.requests = (IF f.requests.k = "list" THEN f.requests.v ELSE <<>>)
        /\ IsSequence(dump.articles)
        /\ IsSequence(dump.requests)
    /\ (f.shape \in {"malformed", "unreadable", "scalar"} /\ "load" \in {trace[i] : i \in 1..Len(trace)})
          => (LoadFailed /\ file = f)

C5_Witness ==
    /\ pc = "loaded"
    /\ hist.start_file.shape = "object"
    /\ hist.start_file.requests.k = "absent"
    /\ hist.start_file.articles.k = "other"
    /\ hist.start_file.schema_version = "0.9"
    /\ dump = [schema_version |-> "0.9", updated_at |-> 0, articles |-> <<>>, requests |-> <<>>]

(***************************************************************************)
(* C6: the store is append-only across runs.  After a run that wrote the   *)
(* file, the item sequence and the audit sequence the file held before the *)
(* run are prefixes of the sequences it holds after the run.               *)
(***************************************************************************)
C6_AppendOnly ==
    pc = "exit0" =>
        /\ IsPrefix(FileItems(hist.start_file), FileItems(file))
        /\ IsPrefix(FileRequests(hist.start_file), FileRequests(file))
        /\ Len(FileRequests(file)) = Len(FileRequests(hist.start_file)) + 1

C6_Witness ==
    /\ pc = "exit0"
    /\ Len(FileItems(hist.start_file)) >= 2
    /\ Len(FileRequests(hist.start_file)) >= 1
    /\ Len(FileItems(file)) > Len(FileItems(hist.start_file))

(***************************************************************************)
(* C10 (as stated): in every run the store is loaded before the HTTP       *)
(* request is issued, so a run whose load fails issues no request.         *)
(***************************************************************************)
C10_LoadBeforeFetch ==
    \A i \in 1..Len(trace) :
        trace[i] = "fetch" => \E j \in 1..(i - 1) : trace[j] = "load"

(***************************************************************************)
(* C10 (amended): every run performs its steps in the strict order fetch,  *)
(* load store, merge, write: the HTTP request is issued before the store   *)
(* file is read, the merge happens after both and the write happens last;  *)
(* no store is loaded in a run whose fetch fails, and a run whose load     *)
(* fails has already issued its request.                                   *)
(***************************************************************************)
C10_FetchLoadMergeWrite ==
    /\ IsPrefix(trace, <<"fetch", "load", "merge", "write">>)
    /\ pc = "exit0" => trace = <<"fetch", "load", "merge", "write">>
    /\ LoadFailed => trace = <<"fetch", "load">>

C10_Witness ==
    /\ LoadFailed
    /\ trace = <<"fetch", "load">>
    /\ runs = 2
    /\ results # <<>>

(***************************************************************************)
(* C11 (as stated): a process stopped inside save_dump is always detected  *)
(* by the next run.  Whenever the file it left is not the complete         *)
(* document (here: a file of zero bytes or an unclosed JSON object), the   *)
(* next run's load_dump exits non-zero and the run writes nothing.         *)
(***************************************************************************)
Loaded == "load" \in {trace[i] : i \in 1..Len(trace)}

C11_CrashAlwaysDetected ==
    (hist.prev_killed /\ hist.start_file.shape \in {"blank", "malformed"} /\ Loaded)
        => (LoadFailed /\ file = hist.start_file)

(***************************************************************************)
(* C11 (amended): a process stopped inside save_dump leaves one of three   *)
(* files.  An unclosed JSON object: the next run's load_dump exits         *)
(* non-zero and the file stays as it is.  A file of zero bytes (stopped    *)
(* after the truncating open, before any byte reached the disk): the next  *)
(* run's load_dump does not fail, it returns a fresh empty store, and a    *)
(* run that completes writes a file holding only its own records and its   *)
(* own audit record.  The whole object short of its final newline: the     *)
(* next run loads it as the complete store.                                *)
(***************************************************************************)
C11_CrashDetectedUnlessEmpty ==
    LET f == hist.start_file IN
    hist.prev_killed =>
        /\ f.shape \in {"blank", "malformed", "object"}
        /\ (f.shape = "malformed" /\ Loaded) => (LoadFailed /\ file = f)
        /\ (f.shape = "blank" /\ Loaded) =>
              /\ ~LoadFailed
              /\ pc = "loaded" => dump = [schema_version |-> "1.0", updated_at |-> 0,
                                          articles |-> <<>>, requests |-> <<>>]
              /\ pc = "exit0" =>
                    /\ Len(FileRequests(file)) = 1
                    /\ Len(FileItems(file)) = LastAudit.added
                    /\ \A i \in 1..Len(FileItems(file)) : FileItems(file)[i].fetched_at = runs
        /\ (f.shape = "object" /\ Loaded) =>
              /\ ~LoadFailed
              /\ pc = "loaded" =>
                    /\ dump.articles = FileItems(f)
                    /\ dump.requests = FileRequests(f)

\* the detected case: the stopped run had records to write, the next run stops at the load
C11_Witness ==
    /\ hist.prev_killed
    /\ hist.start_file.shape = "malformed"
    /\ LoadFailed
    /\ file = hist.start_file
    /\ runs = 2

(***************************************************************************)
(* C12 (as stated): article_key never raises during a merge run.  Every    *)
(* element of the loaded store and of the result list gets a key, also an  *)
(* element that is not a record, so no run ends at the merge step: every   *)
(* run that starts the merge completes it.                                 *)
(***************************************************************************)
MergeStarted == "merge" \in {trace[i] : i \in 1..Len(trace)}

C12_NeverRaises == MergeStarted => pc # "exit1"

(***************************************************************************)
(* C12 (amended): article_key returns a key for every record, absent and   *)
(* null fields counting as the empty string, and raises for every element  *)
(* that is not a record.  A run that starts the merge ends there with a    *)
(* non-zero exit exactly when the loaded store's articles or the result    *)
(* list hold an element that is not a record; that run writes nothing and  *)
(* the file stays as it was.  When every element is a record the merge     *)
(* completes and every stored element is a record.                         *)
(***************************************************************************)
AnyNonRecord(xs) == \E i \in 1..Len(xs) : ~xs[i].isdict

C12_RaisesOnNonRecord ==
    MergeStarted =>
        /\ (pc = "exit1") <=> (AnyNonRecord(dump.articles) \/ AnyNonRecord(results))
        /\ pc = "exit1" =>
              /\ trace = <<"fetch", "load", "merge">>
              /\ file = hist.start_file
              /\ dump.articles = FileItems(hist.start_file)
        /\ pc # "exit1" => ~AnyNonRecord(FileItems(hist.start_file))
        /\ HasMerged =>
              Len(dump.articles) = Len(FileItems(hist.start_file)) + LastAudit.added

\* the store holds a record, the second fetched element is not a record
C12_Witness ==
    /\ pc = "exit1"
    /\ MergeStarted
    /\ FileItems(hist.start_file) = <<R42>>
    /\ results = <<R43, NonRecord>>
    /\ file = hist.start_file

(***************************************************************************)
(* C3 (as stated): key determinism by tier, "empty" being a field that is  *)
(* absent or null or "".  (1) records with equal, non-empty article_id have *)
(* equal keys; (2) with both identifiers empty, records with equal,        *)
(* non-empty links have equal keys; (3) with both identifiers and both     *)
(* links empty, records with equal (title, timestamp, source) triples have *)
(* equal keys.                                                             *)
(***************************************************************************)
Triple(item) ==
    <<item.title, OrEmpty(item.pubDate, item.published_at),
      OrEmpty(item.source_id, item.source_name)>>

IsEmpty(x) == x.v = <<>>

C3_KeyDeterminismAsStated ==
    kpc = "returned" =>
        /\ (~IsEmpty(ka.article_id) /\ ka.article_id = kb.article_id) => keyA = keyB
        /\ (IsEmpty(ka.article_id) /\ IsEmpty(kb.article_id)
              /\ ~IsEmpty(ka.link) /\ ka.link = kb.link) => keyA = keyB
        /\ (IsEmpty(ka.article_id) /\ IsEmpty(kb.article_id)
              /\ IsEmpty(ka.link) /\ IsEmpty(kb.link)
              /\ Triple(ka) = Triple(kb)) => keyA = keyB

(***************************************************************************)
(* C3 (amended): the same three cases with "empty" read as the code reads  *)
(* it: a falsy value (absent, null, "", 0) or a string of whitespace only. *)
(* (1) equal identifiers that are not blank give equal keys; (2) both      *)
(* identifiers blank and equal links that are not blank give equal keys;   *)
(* (3) both identifiers and both links blank and equal (title, pubDate or  *)
(* published_at, source_id or source_name) triples give equal keys.        *)
(***************************************************************************)
Blank(x) == ~Truthy(x) \/ \A i \in 1..Len(x.v) : x.v[i] = " "

C3_KeyDeterminism ==
    kpc = "returned" =>
        /\ (~Blank(ka.article_id) /\ ka.article_id = kb.article_id) => keyA = keyB
        /\ (Blank(ka.article_id) /\ Blank(kb.article_id)
              /\ ~Blank(ka.link) /\ ka.link = kb.link) => keyA = keyB
        /\ (Blank(ka.article_id) /\ Blank(kb.article_id)
              /\ Blank(ka.link) /\ Blank(kb.link)
              /\ Triple(ka) = Triple(kb)) => keyA = keyB

\* tier 3: the records differ (identifier, link, published_at), the triples agree
C3_Witness ==
    /\ kpc = "returned"
    /\ ka.article_id # kb.article_id
    /\ Blank(ka.article_id) /\ Blank(kb.article_id)
    /\ ka.link # kb.link
    /\ Blank(ka.link) /\ Blank(kb.link)
    /\ ka.published_at # kb.published_at
    /\ Truthy(ka.title) /\ Truthy(ka.pubDate) /\ Truthy(ka.source_name)
    /\ Triple(ka) = Triple(kb)
    /\ keyA = keyB

(***************************************************************************)
(* Helpers of the digest properties                                        *)
(***************************************************************************)
\* the dedupe key as the claim words it: link, else title, else derived id
LinkTitleId(item) ==
    IF Len(item.link) > 0 THEN item.link
    ELSE IF Len(item.title) > 0 THEN item.title
    ELSE item.id

\* an item without the fields added after it was fetched
Fetched(item) == [item EXCEPT !.fetched_at = "none", !.ai = FALSE]

\* positions of the encounter sequence holding the first item of their key
FirstPositions(enc) ==
    {i \in 1..Len(enc) :
        \A j \in 1..(i - 1) : LinkTitleId(enc[j]) # LinkTitleId(enc[i])}

SnapshotWritten == dpc \in {"written", "exit0"}

LoopOver == dpc \in {"collected", "summarised", "written", "exit0", "fail_nokey", "fail_openai"}

DigestFailed == dpc \in {"fail_nofeeds", "fail_nokey", "fail_openai"}

(***************************************************************************)
(* C7: within one digest run the written snapshot holds no two items with  *)
(* the same dedupe key (link, else title, else derived id); the item kept  *)
(* for a key is the first one encountered, kept items keep the encounter   *)
(* order, and nothing of an earlier snapshot enters the seen-set.          *)
(***************************************************************************)
C7_SnapshotDeduplicated ==
    SnapshotWritten =>
        LET kept  == snapshot.doc.items
            first == FirstPositions(encountered)
        IN  /\ \A i, j \in 1..Len(kept) :
                  i # j => LinkTitleId(kept[i]) # LinkTitleId(kept[j])
            /\ Len(kept) = Cardinality(first)
            /\ \A k \in 1..Len(kept) :
                  Fetched(kept[k]) = encountered[NthSmallest(first, k)]

\* duplicates were dropped, and the key "u" of the earlier snapshot was kept anew
C7_Witness ==
    /\ dpc = "exit0"
    /\ Len(snapshot.doc.items) >= 2
    /\ Len(encountered) >= Len(snapshot.doc.items) + 2
    /\ \E i \in 1..Len(snapshot.doc.items) :
          /\ LinkTitleId(snapshot.doc.items[i]) = LinkTitleId(OldSnapshot.doc.items[1])
          /\ snapshot.doc.items[i].feed_url = 2
    /\ snapshot.doc.generated_at = Now

(***************************************************************************)
(* C8: a feed's failure is scoped to that feed.  Every selected feed is    *)
(* attempted exactly once, in selection order, whatever happened to the    *)
(* feeds before it; a failed feed adds exactly one error record and no     *)
(* item; the other feeds' items are collected, and the snapshot is written *)
(* unless no feed was selected or the summarisation stopped the run.       *)
(***************************************************************************)
FailedAttempts == SelectSeq(attempted, LAMBDA a : a.outcome # "ok")

C8_FeedFailureScoped ==
    /\ (dpc = "loop" \/ LoopOver) =>
          /\ Len(attempted) = (IF LoopOver THEN Len(feeds) ELSE didx - 1)
          /\ \A i \in 1..Len(attempted) : attempted[i].feed = i
          /\ Len(errors) = Len(FailedAttempts)
          /\ \A k \in 1..Len(errors) :
                /\ errors[k].feed_url = feeds[FailedAttempts[k].feed].feed_url
                /\ errors[k].error = FailedAttempts[k].outcome
          /\ \A i \in 1..Len(items) :
                \E a \in 1..Len(attempted) :
                    attempted[a].outcome = "ok" /\ feeds[a].feed_url = items[i].feed_url
          /\ \A e \in 1..Len(encountered) :
                \E i \in 1..Len(items) : LinkTitleId(items[i]) = LinkTitleId(encountered[e])
    /\ DigestFailed =>
          \/ dpc = "fail_nofeeds" /\ feeds = <<>>
          \/ dpc \in {"fail_nokey", "fail_openai"} /\ items # <<>> /\ ~dargs.skip_openai
    /\ dpc \notin {"off", "start", "loop"} => (LoopOver \/ dpc = "fail_nofeeds")
    /\ SnapshotWritten => (snapshot.doc.items = items /\ snapshot.doc.errors = errors)

\* the first feed failed, the second was still fetched and the snapshot written
C8_Witness ==
    /\ dpc = "exit0"
    /\ Len(attempted) = 2
    /\ attempted[1].outcome = "parse"
    /\ attempted[2].outcome = "ok"
    /\ Len(errors) = 1
    /\ items # <<>>
    /\ snapshot.doc.items = items
    /\ snapshot.doc.errors = errors

(***************************************************************************)
(* C9: when summarisation is attempted and the API call fails, or no JSON  *)
(* object can be extracted from the completion, or the extracted text does *)
(* not parse, the run ends with a non-zero exit and has written nothing:   *)
(* the snapshot is as it was and no archive copy exists.                   *)
(***************************************************************************)
C9_SummariseFailureWritesNothing ==
    /\ (openai.attempted
          /\ \/ openai.call # "ok"
             \/ extract_json(openai.text) = <<>>
             \/ ~JsonLoadsOk(extract_json(openai.text)))
       => (dpc = "fail_openai" /\ snapshot = OldSnapshot /\ archive = NoFile)
    /\ dpc = "fail_openai" => (openai.attempted /\ snapshot = OldSnapshot /\ archive = NoFile)

\* a completion from which text was extracted that is not JSON
C9_Witness ==
    /\ dpc = "fail_openai"
    /\ openai.call = "ok"
    /\ extract_json(openai.text) # <<>>
    /\ ~JsonLoadsOk(extract_json(openai.text))
    /\ items # <<>>
    /\ snapshot = OldSnapshot
    /\ archive = NoFile

====
